---- MODULE Spec2Model ----
(***************************************************************************)
(* pie (src/pie.py): command-line parsing (parseArguments, TASK_RE), the   *)
(* Argument classes and main().  Strings are sequences of one-character    *)
(* strings, so that str.split and the regular expression are computed and  *)
(* not assumed.  Python's 0-based indices are kept: At(s, n) is s[n].      *)
(***************************************************************************)
EXTENDS Integers, Sequences, FiniteSets, TLC

VARIABLES
    WINDOWS,    \* pie.WINDOWS (os.name == 'nt')
    argv,       \* sys.argv
    args,       \* the local name `args` of parseArguments
    i,          \* the local name `i` of parseArguments
    parsed,     \* the local list `parsed` of parseArguments
    mainArgs,   \* the local name `args` of main(): Unbound until parseArguments returns
    pc,         \* "parse" | "main" | "exec" | "body" | "unwind" | "done" | "failed"
    error,      \* the exception that left main(), NoError while there is none
    k,          \* number of iterations of `for a in args` of main() begun
    loaded,     \* number of times `import pie_tasks` ran
    tasks,      \* pie.tasks: function name -> registered function
    options,    \* pie.options.__dict__
    out,        \* what was printed / written, in order
    log,        \* history: the actions whose execute() was called, in order
    calls,      \* history: the calls of task functions, in order
    context,    \* pie.context.__dict__
    withs,      \* the venv objects whose `with` block the running task body is inside, innermost last
    pending,    \* the exception propagating out of the running task body, NoError when none
    steps,      \* number of operations the running task body has performed
    launched,   \* history: the subprocess.call invocations, in order
    exits       \* history: the venv.__exit__ calls, in order

vars == <<WINDOWS, argv, args, i, parsed, mainArgs, pc, error, k, loaded, tasks, options, out, log, calls,
          context, withs, pending, steps, launched, exits>>

----------------------------------------------------------------------------
(* Bounds *)

MaxArgs == 2
MaxTokLen == 3
MaxDefs == 2
MaxBodyOps == 2

----------------------------------------------------------------------------
(* Strings *)

At(s, n) == s[n + 1]

Range(s) == {s[n] : n \in DOMAIN s}

SeqsUpTo(S, n) == UNION {[1..m -> S] : m \in 0..n}

\* number of occurrences of the character c in s
Count(s, c) == Cardinality({n \in DOMAIN s : s[n] = c})

\* str.find(c): 1-based position of the first c in s, 0 when absent
Find(s, c) == IF c \in Range(s) THEN CHOOSE n \in DOMAIN s : s[n] = c /\ \A m \in 1..(n - 1) : s[m] # c ELSE 0

\* str.split(c): split at every occurrence of the one-character separator c
RECURSIVE split(_, _)
split(s, c) ==
    IF Find(s, c) = 0 THEN <<s>>
    ELSE <<SubSeq(s, 1, Find(s, c) - 1)>> \o split(SubSeq(s, Find(s, c) + 1, Len(s)), c)

----------------------------------------------------------------------------
(* Tokens of the command line *)

PROG == <<"p", "i", "e">>
DashV == <<"-", "v">>
DashH == <<"-", "h">>
DashB == <<"-", "b">>
DashO == <<"-", "o">>

\* '-v', '-h', '-b', '-o': the literals parseArguments compares a token with
Flags == {DashV, DashH, DashB, DashO}

\* re `.` without re.DOTALL: any character but the newline
Dot(c) == c # "\n"

\* re `[^()]`
NotParen(c) == c \notin {"(", ")"}

\* length of the longest prefix of s made of `[^()]` characters
NameLen(s) == IF \A n \in DOMAIN s : NotParen(s[n]) THEN Len(s) ELSE (CHOOSE n \in DOMAIN s : ~NotParen(s[n]) /\ \A m \in 1..(n - 1) : NotParen(s[m])) - 1

\* the positions p of s where `\((?P<args>.*)\)` can end when it starts at position q
CloseAt(s, q) == {p \in (q + 1)..Len(s) : s[q] = "(" /\ s[p] = ")" /\ \A m \in (q + 1)..(p - 1) : Dot(s[m])}

Max(S) == CHOOSE n \in S : \A m \in S : m <= n

NoMatch == [ok |-> FALSE, name |-> <<>>, hasArgs |-> FALSE, args |-> <<>>]

\* TASK_RE.match(s): anchored at the start only; the name is greedy, the
\* parenthesised group is optional and its `.*` is greedy (last `)` wins).
\* ok: a match object was returned; hasArgs: group 'args' is not None.
TASK_RE(s) ==
    IF NameLen(s) = 0 THEN NoMatch
    ELSE IF NameLen(s) < Len(s) /\ CloseAt(s, NameLen(s) + 1) # {}
         THEN [ok |-> TRUE, name |-> SubSeq(s, 1, NameLen(s)), hasArgs |-> TRUE,
               args |-> SubSeq(s, NameLen(s) + 2, Max(CloseAt(s, NameLen(s) + 1)) - 1)]
         ELSE [ok |-> TRUE, name |-> SubSeq(s, 1, NameLen(s)), hasArgs |-> FALSE, args |-> <<>>]

\* `args.split(',') if args else []` (None and '' are both falsy)
TaskArgs(mo) == IF mo.hasArgs /\ mo.args # <<>> THEN split(mo.args, ",") ELSE <<>>

----------------------------------------------------------------------------
(* The Argument classes *)

Version == [type |-> "Version", name |-> <<>>, value |-> <<>>, args |-> <<>>, kwargs |-> <<>>]
Help == [type |-> "Help", name |-> <<>>, value |-> <<>>, args |-> <<>>, kwargs |-> <<>>]
CreateBatchFile == [type |-> "CreateBatchFile", name |-> <<>>, value |-> <<>>, args |-> <<>>, kwargs |-> <<>>]
Option(name, value) == [type |-> "Option", name |-> name, value |-> value, args |-> <<>>, kwargs |-> <<>>]
Task(name, pos, kw) == [type |-> "Task", name |-> name, value |-> <<>>, args |-> pos, kwargs |-> kw]

NoError == [type |-> "None", msg |-> <<>>, phase |-> "none"]
Raised(type, msg, phase) == [type |-> type, msg |-> msg, phase |-> phase]

Unbound == [bound |-> FALSE, val |-> <<>>]
Bound(v) == [bound |-> TRUE, val |-> v]

----------------------------------------------------------------------------
(* parseArguments: one action per branch of one iteration of the while loop *)

InLoop == pc = "parse" /\ i < Len(args)
arg == At(args, i)

\* what belongs to the running task body and to the operations it uses
taskFrame == <<context, withs, pending, steps, launched, exits>>

mainFrame == <<WINDOWS, argv, mainArgs, k, loaded, tasks, options, out, log, calls, taskFrame>>

\* arg=='-v': parsed.append(Version()); i+=1
ParseVersion ==
    /\ InLoop /\ arg = DashV
    /\ parsed' = Append(parsed, Version)
    /\ i' = i + 1
    /\ UNCHANGED <<args, pc, error, mainFrame>>

\* arg=='-h': parsed.append(Help()); i+=1
ParseHelp ==
    /\ InLoop /\ arg = DashH
    /\ parsed' = Append(parsed, Help)
    /\ i' = i + 1
    /\ UNCHANGED <<args, pc, error, mainFrame>>

\* arg=='-b': parsed.append(CreateBatchFile()); i+=1
ParseCreateBatchFile ==
    /\ InLoop /\ arg = DashB
    /\ parsed' = Append(parsed, CreateBatchFile)
    /\ i' = i + 1
    /\ UNCHANGED <<args, pc, error, mainFrame>>

\* mutant: the option is set while the command line is still being parsed
ParseOption_eager ==
    /\ InLoop /\ arg = DashO
    /\ i + 1 < Len(args)
    /\ Len(split(At(args, i + 1), "=")) = 2
    /\ parsed' = Append(parsed, Option(split(At(args, i + 1), "=")[1], split(At(args, i + 1), "=")[2]))
    /\ options' = [m \in DOMAIN options \cup {split(At(args, i + 1), "=")[1]} |->
                      IF m = split(At(args, i + 1), "=")[1] THEN split(At(args, i + 1), "=")[2] ELSE options[m]]
    /\ i' = i + 2
    /\ UNCHANGED <<args, pc, error, WINDOWS, argv, mainArgs, k, loaded, tasks, out, log, calls, taskFrame>>

\* mutant: the extra i+=1 of the -o branch is missing
ParseOption_noskip ==
    /\ InLoop /\ arg = DashO
    /\ i + 1 < Len(args)
    /\ Len(split(At(args, i + 1), "=")) = 2
    /\ parsed' = Append(parsed, Option(split(At(args, i + 1), "=")[1], split(At(args, i + 1), "=")[2]))
    /\ i' = i + 1
    /\ UNCHANGED <<args, pc, error, mainFrame>>

\* arg=='-o': name,value=args[i+1].split('='); parsed.append(Option(name,value)); i+=1; i+=1
ParseOption ==
    /\ InLoop /\ arg = DashO
    /\ i + 1 < Len(args)
    /\ Len(split(At(args, i + 1), "=")) = 2
    /\ parsed' = Append(parsed, Option(split(At(args, i + 1), "=")[1], split(At(args, i + 1), "=")[2]))
    /\ i' = i + 2
    /\ UNCHANGED <<args, pc, error, mainFrame>>

\* arg=='-o' and args[i+1] raises IndexError
ParseOptionIndexError ==
    /\ InLoop /\ arg = DashO
    /\ ~(i + 1 < Len(args))
    /\ pc' = "failed"
    /\ error' = Raised("IndexError", <<>>, "parse")
    /\ UNCHANGED <<args, i, parsed, mainFrame>>

\* mutant: an argument that does not split in two is taken as a name with an empty value
ParseOptionValueError_lenient ==
    /\ InLoop /\ arg = DashO
    /\ i + 1 < Len(args)
    /\ Len(split(At(args, i + 1), "=")) # 2
    /\ parsed' = Append(parsed, Option(At(args, i + 1), <<>>))
    /\ i' = i + 2
    /\ UNCHANGED <<args, pc, error, mainFrame>>

\* arg=='-o' and unpacking the split into name,value raises ValueError
ParseOptionValueError ==
    /\ InLoop /\ arg = DashO
    /\ i + 1 < Len(args)
    /\ Len(split(At(args, i + 1), "=")) # 2
    /\ pc' = "failed"
    /\ error' = Raised("ValueError", <<>>, "parse")
    /\ UNCHANGED <<args, i, parsed, mainFrame>>

\* else branch, mo is a match: args=mo.group('args'); args=args.split(',') if args else [];
\* parsed.append(Task(mo.group('name'),args=args,kwargs={})); i+=1
\* The assignment rebinds `args`, the list the loop is walking.
ParseTask ==
    /\ InLoop /\ arg \notin Flags
    /\ TASK_RE(arg).ok
    /\ args' = TaskArgs(TASK_RE(arg))
    /\ parsed' = Append(parsed, Task(TASK_RE(arg).name, TaskArgs(TASK_RE(arg)), <<>>))
    /\ i' = i + 1
    /\ UNCHANGED <<pc, error, mainFrame>>

\* else branch, mo is None: raise Exception('Unknown task format: {}'.format(arg))
ParseUnknownTaskFormat ==
    /\ InLoop /\ arg \notin Flags
    /\ ~TASK_RE(arg).ok
    /\ pc' = "failed"
    /\ error' = Raised("Exception", arg, "parse")
    /\ UNCHANGED <<args, i, parsed, mainFrame>>

\* the loop condition i<len(args) is false: return parsed (main: args=parseArguments(sys.argv))
ParseReturn ==
    /\ pc = "parse" /\ ~(i < Len(args))
    /\ mainArgs' = Bound(parsed)
    /\ pc' = "main"
    /\ UNCHANGED <<WINDOWS, argv, args, i, parsed, error, k, loaded, tasks, options, out, log, calls, taskFrame>>

----------------------------------------------------------------------------
(* Lookup: the attribute bag behind pie.options *)

ATTR_class == <<"_", "_", "c", "l", "a", "s", "s", "_", "_">>
ATTR_dict == <<"_", "_", "d", "i", "c", "t", "_", "_">>
ATTR_doc == <<"_", "_", "d", "o", "c", "_", "_">>
ATTR_module == <<"_", "_", "m", "o", "d", "u", "l", "e", "_", "_">>

\* attributes `class Lookup(object)` defines as data descriptors: they shadow
\* the instance __dict__ and refuse a str value
LookupDescriptors == {ATTR_class, ATTR_dict}

\* attributes found on the class when the instance __dict__ has no entry
\* (the class docstring, the module name)
LookupClassAttrs == {ATTR_doc, ATTR_module}

EmptyLookup == [n \in {} |-> <<>>]

StrValue(v) == [kind |-> "str", val |-> v]
ClassValue(n) == [kind |-> "object", val |-> n]
AttributeError(n) == [kind |-> "AttributeError", val |-> n]

\* getattr(options, n), i.e. options.<n> as task code reads it
getattr(d, n) ==
    IF n \in LookupDescriptors THEN ClassValue(n)
    ELSE IF n \in DOMAIN d THEN StrValue(d[n])
    ELSE IF n \in LookupClassAttrs THEN ClassValue(n)
    ELSE AttributeError(n)

\* setattr(options, n, v) raises TypeError
setattrRaises(n) == n \in LookupDescriptors

\* setattr(options, n, v): the instance __dict__ afterwards
setattr(d, n, v) == [m \in DOMAIN d \cup {n} |-> IF m = n THEN v ELSE d[m]]

----------------------------------------------------------------------------
(* The task registry and the pie_tasks module *)

NAME_a == <<"a">>
NAME_build == <<"b", "u", "i", "l", "d">>

\* the names of the functions a pie_tasks module defines
FunctionNames == {NAME_a, NAME_build}

\* a pie_tasks module: the @task()-decorated functions it defines, in order
PieTasksModules == SeqsUpTo(FunctionNames, MaxDefs)

\* the function object made by the n-th def of the module
Function(name, n) == [name |-> name, def |-> n]

\* decorator(taskFn): tasks[taskFn.__name__]=taskFn
decorator(reg, taskFn) == [m \in DOMAIN reg \cup {taskFn.name} |-> IF m = taskFn.name THEN taskFn ELSE reg[m]]

\* executing the module body: each decorated def registers itself, in order
RECURSIVE Register(_, _, _)
Register(reg, module, n) ==
    IF n > Len(module) THEN reg
    ELSE Register(decorator(reg, Function(module[n], n)), module, n + 1)

\* the options a task body may read
NAME_x == <<"x">>
NAME_env == <<"e", "n", "v">>
ReadNames == {NAME_a, NAME_x, NAME_env, ATTR_doc, ATTR_class}

----------------------------------------------------------------------------
(* main() and the execute() methods: one action per branch *)

parseFrame == <<WINDOWS, argv, args, i, parsed, mainArgs>>

\* `if args:` is true: import pie_tasks, which registers the module's tasks
MainImport ==
    /\ pc = "main" /\ mainArgs.val # <<>>
    /\ \E module \in PieTasksModules : tasks' = Register(tasks, module, 1)
    /\ loaded' = loaded + 1
    /\ k' = 0
    /\ pc' = "exec"
    /\ UNCHANGED <<parseFrame, taskFrame, error, options, out, log, calls>>

\* mutant: a failing import is ignored and the actions run without it
MainImportError_ignored ==
    /\ pc = "main" /\ mainArgs.val # <<>>
    /\ k' = 0
    /\ pc' = "exec"
    /\ UNCHANGED <<parseFrame, taskFrame, error, loaded, tasks, options, out, log, calls>>

\* `if args:` is true and import pie_tasks raises (no such module)
MainImportError ==
    /\ pc = "main" /\ mainArgs.val # <<>>
    /\ pc' = "failed"
    /\ error' = Raised("ImportError", <<>>, "import")
    /\ UNCHANGED <<parseFrame, taskFrame, k, loaded, tasks, options, out, log, calls>>

\* mutant: with no actions main prints the version
MainHelp_version ==
    /\ pc = "main" /\ mainArgs.val = <<>>
    /\ log' = Append(log, Version)
    /\ out' = Append(out, "pie v0.0.1")
    /\ pc' = "done"
    /\ UNCHANGED <<parseFrame, taskFrame, error, k, loaded, tasks, options, calls>>

\* `if args:` is false: Help().execute()
MainHelp ==
    /\ pc = "main" /\ mainArgs.val = <<>>
    /\ log' = Append(log, Help)
    /\ out' = Append(out, "Usage:  pie -v | -h | -b | {-o name=value | task[(args...)]}")
    /\ pc' = "done"
    /\ UNCHANGED <<parseFrame, taskFrame, error, k, loaded, tasks, options, calls>>

InFor == pc = "exec" /\ k < Len(mainArgs.val)
\* mutant: the for loop walks the list backwards
a_reversed == At(mainArgs.val, Len(mainArgs.val) - 1 - k)

\* `for a in args`: the action of the current iteration
a == At(mainArgs.val, k)

\* Version.execute
ExecVersion ==
    /\ InFor /\ a.type = "Version"
    /\ log' = Append(log, a)
    /\ out' = Append(out, "pie v0.0.1")
    /\ k' = k + 1
    /\ UNCHANGED <<parseFrame, taskFrame, pc, error, loaded, tasks, options, calls>>

\* Help.execute
ExecHelp ==
    /\ InFor /\ a.type = "Help"
    /\ log' = Append(log, a)
    /\ out' = Append(out, "Usage:  pie -v | -h | -b | {-o name=value | task[(args...)]}")
    /\ k' = k + 1
    /\ UNCHANGED <<parseFrame, taskFrame, pc, error, loaded, tasks, options, calls>>

\* CreateBatchFile.execute
ExecCreateBatchFile ==
    /\ InFor /\ a.type = "CreateBatchFile"
    /\ log' = Append(log, a)
    /\ out' = Append(out, IF WINDOWS THEN "write pie.bat" ELSE "write pie")
    /\ k' = k + 1
    /\ UNCHANGED <<parseFrame, taskFrame, pc, error, loaded, tasks, options, calls>>

\* Option.execute: setattr(options,self.name,self.value)
ExecOption ==
    /\ InFor /\ a.type = "Option"
    /\ ~setattrRaises(a.name)
    /\ log' = Append(log, a)
    /\ options' = setattr(options, a.name, a.value)
    /\ k' = k + 1
    /\ UNCHANGED <<parseFrame, taskFrame, pc, error, loaded, tasks, out, calls>>

\* Option.execute: setattr raises TypeError
ExecOptionTypeError ==
    /\ InFor /\ a.type = "Option"
    /\ setattrRaises(a.name)
    /\ log' = Append(log, a)
    /\ pc' = "failed"
    /\ error' = Raised("TypeError", a.name, "exec")
    /\ UNCHANGED <<parseFrame, taskFrame, k, loaded, tasks, options, out, calls>>

\* the record of one call of a task function: what it was called with and
\* what it finds in pie.options
Call(fn, pos, kw) == [fn |-> fn, args |-> pos, kwargs |-> kw, at |-> Len(log),
                      observed |-> [n \in ReadNames |-> getattr(options, n)]]

\* mutant: the function is called without the parsed arguments
ExecTask_noargs ==
    /\ InFor /\ a.type = "Task"
    /\ a.name \in DOMAIN tasks
    /\ log' = Append(log, a)
    /\ calls' = Append(calls, Call(tasks[a.name], <<>>, a.kwargs))
    /\ pc' = "body"
    /\ steps' = 0
    /\ UNCHANGED <<parseFrame, error, k, loaded, tasks, options, out, context, withs, pending, launched, exits>>

\* Task.execute: tasks[self.name](*self.args,**self.kwargs), the function body starts
ExecTask ==
    /\ InFor /\ a.type = "Task"
    /\ a.name \in DOMAIN tasks
    /\ log' = Append(log, a)
    /\ calls' = Append(calls, Call(tasks[a.name], a.args, a.kwargs))
    /\ pc' = "body"
    /\ steps' = 0
    /\ UNCHANGED <<parseFrame, error, k, loaded, tasks, options, out, context, withs, pending, launched, exits>>

\* Task.execute: the call itself raises (the arguments do not fit the function)
ExecTaskRaises ==
    /\ InFor /\ a.type = "Task"
    /\ a.name \in DOMAIN tasks
    /\ log' = Append(log, a)
    /\ calls' = Append(calls, Call(tasks[a.name], a.args, a.kwargs))
    /\ pc' = "failed"
    /\ error' = Raised("TaskException", a.name, "exec")
    /\ UNCHANGED <<parseFrame, taskFrame, k, loaded, tasks, options, out>>

\* mutant: the KeyError is swallowed and the loop goes on
ExecTaskKeyError_continue ==
    /\ InFor /\ a.type = "Task"
    /\ a.name \notin DOMAIN tasks
    /\ log' = Append(log, a)
    /\ k' = k + 1
    /\ error' = Raised("KeyError", a.name, "exec")
    /\ UNCHANGED <<parseFrame, taskFrame, pc, loaded, tasks, options, out, calls>>

\* Task.execute: tasks[self.name] raises KeyError
ExecTaskKeyError ==
    /\ InFor /\ a.type = "Task"
    /\ a.name \notin DOMAIN tasks
    /\ log' = Append(log, a)
    /\ pc' = "failed"
    /\ error' = Raised("KeyError", a.name, "exec")
    /\ UNCHANGED <<parseFrame, taskFrame, k, loaded, tasks, options, out, calls>>

\* the for loop is exhausted: main returns
MainReturn ==
    /\ pc = "exec" /\ ~(k < Len(mainArgs.val))
    /\ pc' = "done"
    /\ UNCHANGED <<parseFrame, taskFrame, error, k, loaded, tasks, options, out, log, calls>>

----------------------------------------------------------------------------
(* The operations a task body uses: cmd, venv *)

\* the command strings task code passes to cmd
CMD_ls == <<"l", "s">>
Commands == {CMD_ls}

\* what the launched shell exits with
ExitStatuses == {0, 1}

\* the paths task code gives venv
PATH_venv == <<"v", "e", "n", "v">>
VenvPaths == {PATH_venv}

\* the string cmd(c) hands to subprocess.call(..., shell=True)
ShellLine(c) == c

\* one subprocess.call: the string cmd was given, the string launched, the
\* exit status, and the with blocks the caller was inside
Launch(c, status) == [given |-> c, line |-> ShellLine(c), status |-> status, venvs |-> withs]

\* the number of frames pie.context holds
ContextDepth == Cardinality(DOMAIN context)

\* venv(path): __init__ and __enter__ (returns self; pie.context is not touched)
Venv(path) == [path |-> path, before |-> ContextDepth]

\* Exception('I dunno')
IDunno == Raised("Exception", <<"I", " ", "d", "u", "n", "n", "o">>, "exec")

\* one venv.__exit__ call: the exception it was given, the exception it
\* raised, the depth of pie.context before __enter__ and after __exit__
Exit(v, given, raised) == [path |-> v.path, given |-> given, raised |-> raised,
                           before |-> v.before, after |-> ContextDepth]

InBody == pc = "body"
CanDo == InBody /\ steps < MaxBodyOps

callerFrame == <<parseFrame, k, loaded, tasks, options, out, log, calls, context>>

\* mutant: a non-zero exit status raises, as subprocess.check_call would
BodyCmd_check ==
    /\ CanDo
    /\ \E c \in Commands, status \in ExitStatuses :
          /\ launched' = Append(launched, Launch(c, status))
          /\ IF status # 0
             THEN pending' = Raised("CalledProcessError", c, "exec") /\ pc' = "unwind"
             ELSE UNCHANGED <<pending, pc>>
    /\ steps' = steps + 1
    /\ UNCHANGED <<callerFrame, error, withs, exits>>

\* the task body calls cmd(c): subprocess.call(c,shell=True), the status is dropped
BodyCmd ==
    /\ CanDo
    /\ \E c \in Commands, status \in ExitStatuses :
          launched' = Append(launched, Launch(c, status))
    /\ steps' = steps + 1
    /\ UNCHANGED <<callerFrame, pc, error, withs, pending, exits>>

\* the task body enters `with venv(path):`
BodyEnter ==
    /\ CanDo
    /\ \E path \in VenvPaths : withs' = Append(withs, Venv(path))
    /\ steps' = steps + 1
    /\ UNCHANGED <<callerFrame, pc, error, pending, launched, exits>>

\* the innermost with block ends normally: __exit__(None,None,None) passes
BodyExit ==
    /\ InBody /\ withs # <<>>
    /\ withs' = SubSeq(withs, 1, Len(withs) - 1)
    /\ exits' = Append(exits, Exit(withs[Len(withs)], NoError, NoError))
    /\ UNCHANGED <<callerFrame, pc, error, pending, steps, launched>>

\* the task body raises
BodyRaise ==
    /\ InBody
    /\ pending' = Raised("TaskException", a.name, "exec")
    /\ pc' = "unwind"
    /\ UNCHANGED <<callerFrame, error, withs, steps, launched, exits>>

\* mutant: __exit__ lets the exception it was given propagate
UnwindExit_reraise ==
    /\ pc = "unwind" /\ withs # <<>>
    /\ withs' = SubSeq(withs, 1, Len(withs) - 1)
    /\ exits' = Append(exits, Exit(withs[Len(withs)], pending, pending))
    /\ UNCHANGED <<callerFrame, pc, error, pending, steps, launched>>

\* an exception leaves the innermost with block: __exit__ gets it and
\* raises Exception('I dunno') in its place
UnwindExit ==
    /\ pc = "unwind" /\ withs # <<>>
    /\ withs' = SubSeq(withs, 1, Len(withs) - 1)
    /\ exits' = Append(exits, Exit(withs[Len(withs)], pending, IDunno))
    /\ pending' = IDunno
    /\ UNCHANGED <<callerFrame, pc, error, steps, launched>>

\* the exception leaves the task function, Task.execute and main
UnwindLeave ==
    /\ pc = "unwind" /\ withs = <<>>
    /\ pc' = "failed"
    /\ error' = pending
    /\ UNCHANGED <<callerFrame, withs, pending, steps, launched, exits>>

\* the task function returns: the for loop of main goes on
BodyReturn ==
    /\ InBody /\ withs = <<>>
    /\ k' = k + 1
    /\ pc' = "exec"
    /\ UNCHANGED <<parseFrame, error, loaded, tasks, options, out, log, calls, taskFrame>>

----------------------------------------------------------------------------
(* Command lines *)

TOK_x1 == <<"x", "=", "1">>
TOK_x2 == <<"x", "=", "2">>
TOK_ab == <<"a", "=", "b">>
TOK_abc == <<"a", "=", "b", "=", "c">>
TOK_envprod == <<"e", "n", "v", "=", "p", "r", "o", "d">>
TOK_doc == ATTR_doc \o <<"=", "d">>
TOK_class == ATTR_class \o <<"=", "c">>
TOK_b == <<"b">>
TOK_foo == <<"f", "o", "o">>
TOK_foo0 == <<"f", "o", "o", "(", ")">>
TOK_foo12 == <<"f", "o", "o", "(", "1", ",", "2", ")">>
TOK_build12 == NAME_build \o <<"(", "1", ",", "2", ")">>
TOK_fooOpen == <<"f", "o", "o", "(", "1", ",", "2">>
TOK_fooBar == <<"f", "o", "o", ")", "b", "a", "r">>
TOK_fooX == <<"f", "o", "o", "(", "1", ")", "x">>
TOK_axyv == <<"a", "(", "x", ",", "y", ",", "-", "v", ")">>
TOK_axyo == <<"a", "(", "x", ",", "y", ",", "-", "o", ")">>
TOK_axyb == <<"a", "(", "x", ",", "y", ",", "b", ")">>
TOK_a4v == <<"a", "(", ",", ",", ",", ",", "-", "v", ")">>
TOK_open == <<"(", "a">>
TOK_anl == <<"a", "(", "\n", ")">>
TOK_abnl == <<"a", "(", "b", ",", "\n", ")">>

\* the tokens every command line of up to MaxArgs tokens is made of
LineTokens == {DashV, DashH, DashB, DashO, TOK_x1, NAME_a, TOK_b, TOK_build12}

\* the characters of the generated tokens
Alphabet == {"a", "(", ")", ",", "=", "\n"}

GenTokens == SeqsUpTo(Alphabet, MaxTokLen)

ExampleLines == {
    <<DashO, TOK_x1, DashO, TOK_x2, NAME_a>>,
    <<DashO, TOK_envprod, NAME_a>>,
    <<DashO, TOK_doc, NAME_a>>,
    <<DashO, TOK_class, NAME_a>>,
    <<DashO, TOK_ab>>, <<DashO, TOK_abc>>,
    <<TOK_foo>>, <<TOK_foo0>>, <<TOK_foo12>>,
    <<TOK_fooOpen>>, <<TOK_fooBar>>, <<TOK_fooX>>,
    <<TOK_axyv>>, <<TOK_axyo>>, <<TOK_axyb>>,
    <<DashO, TOK_x1, TOK_a4v>>,
    <<DashO, TOK_x1, TOK_build12>>,
    <<DashO, TOK_x1, DashV>>,
    <<DashV, DashO, NAME_a>>,
    <<DashV, NAME_a, DashH>>,
    <<TOK_anl>>, <<TOK_abnl>>,
    <<DashO, TOK_x1, TOK_open>>,
    <<DashO, TOK_x1, DashO, TOK_class, DashV>>}

CommandLines ==
    SeqsUpTo(LineTokens, MaxArgs) \cup ExampleLines
        \cup {<<t>> : t \in GenTokens} \cup {<<DashO, t>> : t \in GenTokens}

----------------------------------------------------------------------------

Init ==
    /\ WINDOWS \in BOOLEAN
    /\ argv \in {<<PROG>> \o line : line \in CommandLines}
    /\ args = argv
    /\ i = 1
    /\ parsed = <<>>
    /\ mainArgs = Unbound
    /\ pc = "parse"
    /\ error = NoError
    /\ k = 0
    /\ loaded = 0
    /\ tasks = [n \in {} |-> Function(<<>>, 0)]
    /\ options = EmptyLookup
    /\ out = <<>>
    /\ log = <<>>
    /\ calls = <<>>
    /\ context = EmptyLookup
    /\ withs = <<>>
    /\ pending = NoError
    /\ steps = 0
    /\ launched = <<>>
    /\ exits = <<>>

Next ==
    \/ ParseVersion \/ ParseHelp \/ ParseCreateBatchFile
    \/ ParseOption \/ ParseOptionIndexError \/ ParseOptionValueError
    \/ ParseTask \/ ParseUnknownTaskFormat \/ ParseReturn
    \/ MainImport \/ MainImportError \/ MainHelp
    \/ ExecVersion \/ ExecHelp \/ ExecCreateBatchFile
    \/ ExecOption \/ ExecOptionTypeError
    \/ ExecTask \/ ExecTaskRaises \/ ExecTaskKeyError
    \/ MainReturn
    \/ BodyCmd \/ BodyEnter \/ BodyExit \/ BodyRaise
    \/ UnwindExit \/ UnwindLeave \/ BodyReturn

Spec == Init /\ [][Next]_vars

TypeOK ==
    /\ pc \in {"parse", "main", "exec", "body", "unwind", "done", "failed"}
    /\ i \in Nat /\ k \in Nat /\ loaded \in 0..1

----------------------------------------------------------------------------
(* The command-line grammar, as the documentation states it *)

\* t is, in its entirety, `name` or `name(args)`, name a non-empty run of
\* characters other than parentheses
WellFormedTask(t) ==
    /\ t \notin Flags
    /\ NameLen(t) >= 1
    /\ NameLen(t) = Len(t) \/ (t[NameLen(t) + 1] = "(" /\ t[Len(t)] = ")")

\* the name and the text between the parentheses of a well-formed task token
NameOf(t) == SubSeq(t, 1, NameLen(t))
InnerOf(t) == IF NameLen(t) = Len(t) THEN <<>> ELSE SubSeq(t, NameLen(t) + 2, Len(t) - 1)

\* t is `name=value` with a single `=`
NameValue(t) == Count(t, "=") = 1

\* the kinds of the actions the grammar gives the tokens toks, left to right
RECURSIVE GrammarKinds(_)
GrammarKinds(toks) ==
    IF toks = <<>> THEN <<>>
    ELSE IF toks[1] = DashV THEN <<"Version">> \o GrammarKinds(Tail(toks))
    ELSE IF toks[1] = DashH THEN <<"Help">> \o GrammarKinds(Tail(toks))
    ELSE IF toks[1] = DashB THEN <<"CreateBatchFile">> \o GrammarKinds(Tail(toks))
    ELSE IF toks[1] = DashO
         THEN IF Len(toks) >= 2 /\ NameValue(toks[2])
              THEN <<"Option">> \o GrammarKinds(Tail(Tail(toks)))
              ELSE <<"Invalid">>
    ELSE IF WellFormedTask(toks[1]) THEN <<"Task">> \o GrammarKinds(Tail(toks))
    ELSE <<"Invalid">>

Kinds(acts) == [n \in DOMAIN acts |-> acts[n].type]

----------------------------------------------------------------------------
(* C1: for every command line made of flags, `-o name=value` pairs and      *)
(* task tokens, parseArguments returns one action per flag, per pair and    *)
(* per task token, in command-line order.                                   *)
C1_OneActionPerUnit ==
    "Invalid" \notin Range(GrammarKinds(Tail(argv))) =>
        /\ error.phase # "parse"
        /\ mainArgs.bound => Kinds(mainArgs.val) = GrammarKinds(Tail(argv))

----------------------------------------------------------------------------
\* position of the last Option named n among the actions acts, 0 when none
LastOption(acts, n) ==
    IF \E j \in DOMAIN acts : acts[j].type = "Option" /\ acts[j].name = n
    THEN Max({j \in DOMAIN acts : acts[j].type = "Option" /\ acts[j].name = n})
    ELSE 0

NumTasks(acts) == Cardinality({j \in DOMAIN acts : acts[j].type = "Task"})

ExampleC2 == <<PROG, DashO, TOK_x1, TOK_build12>>

(* C2: main executes every parsed action exactly once, in command-line      *)
(* order; for `-o x=1 build(1,2)` option x is "1" when build is called      *)
(* with ["1","2"], and build is never called before x is set.               *)
C2_ExecutedInOrder ==
    /\ (mainArgs.bound /\ mainArgs.val # <<>>) =>
          /\ Len(log) <= Len(mainArgs.val)
          /\ log = SubSeq(mainArgs.val, 1, Len(log))
          /\ pc = "done" => log = mainArgs.val
    /\ argv = ExampleC2 =>
          /\ \A c \in Range(calls) :
                /\ c.fn.name = NAME_build
                /\ c.args = <<<<"1">>, <<"2">>>>
                /\ c.kwargs = <<>>
                /\ c.observed[NAME_x] = StrValue(<<"1">>)
          /\ Len(calls) <= 1
          /\ calls # <<>> => (NAME_x \in DOMAIN options /\ options[NAME_x] = <<"1">>)
          /\ pc = "done" => (Len(calls) = 1 /\ options[NAME_x] = <<"1">>)

C2_Witness ==
    /\ argv = ExampleC2 /\ pc = "done"
    /\ Len(log) = 2 /\ Len(calls) = 1

(* C3: when executing an action raises, no later action is executed, the    *)
(* exception leaves main as raised, and what the earlier actions did (the   *)
(* options set, the tasks called, the output) stays.                        *)
C3_FailFast ==
    error.phase = "exec" =>
        /\ pc = "failed"
        /\ k < Len(mainArgs.val)
        /\ log = SubSeq(mainArgs.val, 1, k + 1)
        /\ error.type \in {"KeyError", "TypeError", "TaskException", "Exception"}
        /\ error.type # "Exception" => error.msg = a.name
        /\ pending # NoError => error = pending
        /\ error.type = "TypeError" <=> a.type = "Option"
        /\ \A j \in 1..k : mainArgs.val[j].type = "Option" =>
              /\ mainArgs.val[j].name \in DOMAIN options
              /\ options[mainArgs.val[j].name]
                    = mainArgs.val[LastOption(SubSeq(mainArgs.val, 1, k), mainArgs.val[j].name)].value
        /\ Len(calls) = NumTasks(SubSeq(mainArgs.val, 1, k)) + (IF error.type \in {"TaskException", "Exception"} THEN 1 ELSE 0)
        /\ Len(out) = Cardinality({j \in 1..k : mainArgs.val[j].type \in {"Version", "Help", "CreateBatchFile"}})

C3_Witness ==
    /\ pc = "failed" /\ error.phase = "exec"
    /\ k >= 1 /\ k + 1 < Len(mainArgs.val)
    /\ DOMAIN options # {}

----------------------------------------------------------------------------
\* the parser is about to dispatch the token tok
Parsing(tok) == InLoop /\ arg = tok

(* C4: a task token `name` or `name(args)` parses to one Task action with   *)
(* no keyword arguments whose positional arguments are the text between     *)
(* the parentheses split at the commas, and none when that text is empty.   *)
C4_TaskTokenArgs ==
    [][(InLoop /\ WellFormedTask(arg)) =>
          parsed' = Append(parsed,
                           Task(NameOf(arg),
                                IF InnerOf(arg) = <<>> THEN <<>> ELSE split(InnerOf(arg), ","),
                                <<>>))]_vars

\* the token after -o, when there is one
optarg == At(args, i + 1)

(* C5: at `-o` followed by `name=value` the parser appends                  *)
(* Option(name, value) and goes on at the token after the argument; the     *)
(* token after -o is never dispatched as a flag or a task.                  *)
C5_OptionConsumesTwo ==
    /\ [](argv = <<PROG, DashO, TOK_ab>> /\ mainArgs.bound => mainArgs.val = <<Option(<<"a">>, <<"b">>)>>)
    /\ [][(Parsing(DashO) /\ i + 1 < Len(args)) =>
            \/ /\ pc' = "failed" /\ mainArgs' = Unbound
            \/ /\ pc' = "parse" /\ i' = i + 2 /\ args' = args
               /\ Len(parsed') = Len(parsed) + 1
               /\ parsed'[Len(parsed')].type = "Option"]_vars
    /\ [][(Parsing(DashO) /\ i + 1 < Len(args) /\ NameValue(optarg)) =>
            /\ pc' = "parse" /\ i' = i + 2
            /\ parsed' = Append(parsed, Option(SubSeq(optarg, 1, Find(optarg, "=") - 1),
                                               SubSeq(optarg, Find(optarg, "=") + 1, Len(optarg))))]_vars

C5_Witness ==
    /\ argv = <<PROG, DashO, TOK_x1, DashV>>
    /\ mainArgs.bound
    /\ mainArgs.val = <<Option(<<"x">>, <<"1">>), Version>>

(* C6: the argument of -o is split at its first `=` only: a value that      *)
(* contains `=` is kept whole.                                              *)
C6_SplitOnFirstEq ==
    [][(Parsing(DashO) /\ i + 1 < Len(args) /\ Count(optarg, "=") >= 2) =>
            /\ pc' = "parse"
            /\ parsed' = Append(parsed, Option(SubSeq(optarg, 1, Find(optarg, "=") - 1),
                                               SubSeq(optarg, Find(optarg, "=") + 1, Len(optarg))))]_vars

(* C7: at `-o` with no token after it, or with a next token without `=`,    *)
(* parseArguments raises and main gets no action list.                      *)
C7_OptionArgError ==
    /\ [][(Parsing(DashO) /\ (~(i + 1 < Len(args)) \/ "=" \notin Range(optarg))) =>
            /\ pc' = "failed"
            /\ error'.phase = "parse" /\ error'.type \in {"IndexError", "ValueError"}
            /\ mainArgs' = Unbound]_vars
    /\ [](error.phase = "parse" => (pc = "failed" /\ mainArgs = Unbound /\ log = <<>>))

C7_Witness ==
    /\ pc = "failed" /\ error.type = "ValueError"
    /\ arg = DashO /\ "=" \notin Range(optarg)
    /\ parsed # <<>>

(* C8: a token that is not a flag and is not wholly `name` or `name(args)`  *)
(* makes parsing fail with an error carrying the token; no Task is made.    *)
C8_MalformedTaskToken ==
    [][(InLoop /\ arg \notin Flags /\ ~WellFormedTask(arg)) =>
            /\ pc' = "failed"
            /\ error'.phase = "parse" /\ error'.msg = arg
            /\ parsed' = parsed]_vars

(* C9: executing Task(name, args): when name is registered, the function    *)
(* registered under name is called once with exactly args and no keyword    *)
(* arguments; when it is not, KeyError is raised and no function is called. *)
C9_TaskDispatch ==
    /\ [][(InFor /\ a.type = "Task") =>
            IF a.name \in DOMAIN tasks
            THEN /\ Len(calls') = Len(calls) + 1
                 /\ SubSeq(calls', 1, Len(calls)) = calls
                 /\ calls'[Len(calls')].fn = tasks[a.name]
                 /\ calls'[Len(calls')].fn.name = a.name
                 /\ calls'[Len(calls')].args = a.args
                 /\ calls'[Len(calls')].kwargs = <<>>
            ELSE /\ calls' = calls
                 /\ pc' = "failed" /\ error' = Raised("KeyError", a.name, "exec")]_vars
    /\ [][calls' # calls => (InFor /\ a.type = "Task")]_vars

C9_Witness ==
    /\ argv = <<PROG, TOK_axyb>>
    /\ Len(calls) = 1 /\ calls[1].args = <<<<"x">>, <<"y">>, <<"b">>>>
    /\ pc = "failed" /\ error = Raised("KeyError", TOK_b, "exec")

(* C10: a task reading option n finds the value of the last SetOption for   *)
(* n executed before it, as the string given, and fails when n was never    *)
(* set.                                                                     *)
C10_LastWriteWins ==
    \A c \in Range(calls) : \A n \in ReadNames :
        LET before == SubSeq(log, 1, c.at) IN
        c.observed[n] = IF LastOption(before, n) = 0
                        THEN AttributeError(n)
                        ELSE StrValue(before[LastOption(before, n)].value)

----------------------------------------------------------------------------
(* C11: entering a venv block pushes one frame on the context stack (the    *)
(* depth inside the block is the depth before it plus one) and leaving it,  *)
(* normally or by an exception, pops one, so the depth after a block is     *)
(* the depth before it.                                                     *)
C11_StackDiscipline ==
    /\ withs # <<>> => ContextDepth = withs[Len(withs)].before + 1
    /\ \A e \in Range(exits) : e.after = e.before

\* s ends with t and is longer than t
ProperSuffix(t, s) == Len(s) > Len(t) /\ SubSeq(s, Len(s) - Len(t) + 1, Len(s)) = t

(* C12: a command given to cmd inside a venv block is launched with the     *)
(* activation of the innermost block in front of it; outside every block    *)
(* it is launched as given.                                                 *)
C12_CommandPrefixed ==
    \A l \in Range(launched) :
        IF l.venvs = <<>> THEN l.line = l.given ELSE ProperSuffix(l.given, l.line)

Usage == "Usage:  pie -v | -h | -b | {-o name=value | task[(args...)]}"

(* C13: with no token after the program name parseArguments returns an      *)
(* empty list and main executes exactly Help, as a completed `-h` run       *)
(* does: no option is set and no task is called.                            *)
C13_NoArgsHelp ==
    /\ argv = <<PROG>> =>
          /\ mainArgs.bound => mainArgs.val = <<>>
          /\ error = NoError /\ pc # "failed"
          /\ options = EmptyLookup /\ calls = <<>> /\ launched = <<>>
          /\ log \in {<<>>, <<Help>>}
          /\ pc = "done" => (log = <<Help>> /\ out = <<Usage>>)
    /\ (argv = <<PROG, DashH>> /\ pc = "done") =>
          (log = <<Help>> /\ out = <<Usage>> /\ options = EmptyLookup /\ calls = <<>>)

C13_Witness ==
    /\ argv = <<PROG>> /\ pc = "done"
    /\ log = <<Help>> /\ out = <<Usage>>

NumOf(kinds, kind) == Cardinality({j \in DOMAIN kinds : kinds[j] = kind})

(* C14: every flag token -v, -h, -b yields exactly one action of its kind,  *)
(* whatever tokens precede or follow it.                                    *)
C14_FlagOneAction ==
    ("Invalid" \notin Range(GrammarKinds(Tail(argv))) /\ mainArgs.bound) =>
        \A kind \in {"Version", "Help", "CreateBatchFile"} :
            NumOf(Kinds(mainArgs.val), kind) = NumOf(GrammarKinds(Tail(argv)), kind)

(* C15: cmd does not raise when the command exits non-zero: the task body   *)
(* goes on, and when it returns the remaining actions are executed.         *)
C15_CmdNeverRaises ==
    /\ [][launched' # launched =>
            /\ pc = "body" /\ pc' = "body"
            /\ pending' = NoError /\ error' = NoError
            /\ k' = k /\ withs' = withs]_vars
    /\ []((pc = "done" /\ \E j \in DOMAIN launched : launched[j].status # 0) => log = mainArgs.val)

C15_Witness ==
    /\ pc = "done"
    /\ launched # <<>> /\ launched[1].status # 0
    /\ Len(log) = 2 /\ log[1].type = "Task" /\ log[2] = Version

(* C16: a command line of one task token yields exactly one action, a Task, *)
(* whatever its argument list holds.                                        *)
C16_OneTaskOneAction ==
    (Len(argv) = 2 /\ WellFormedTask(argv[2])) =>
        /\ error.phase # "parse"
        /\ mainArgs.bound => (Len(mainArgs.val) = 1 /\ mainArgs.val[1].type = "Task")

(* C17: when the block of a venv raises, __exit__ raises the generic        *)
(* Exception in place of what the block raised; when the block ends         *)
(* normally __exit__ raises nothing.                                        *)
C17_ExitReplaces ==
    /\ \A e \in Range(exits) :
          IF e.given = NoError THEN e.raised = NoError
          ELSE e.raised = IDunno /\ e.raised.type # "TaskException"
    /\ (error.phase = "exec" /\ \E e \in Range(exits) : e.given # NoError) => error = IDunno
    /\ (pc = "unwind" /\ \E e \in Range(exits) : e.given # NoError) => pending = IDunno

C17_Witness ==
    /\ pc = "failed" /\ error = IDunno
    /\ exits # <<>> /\ exits[Len(exits)].given.type = "TaskException"

(* C18: pie_tasks is imported once, after parsing and before the first      *)
(* action, exactly when the parsed list is not empty; when the import       *)
(* fails no action is executed.                                             *)
C18_ImportOnce ==
    /\ loaded \in {0, 1}
    /\ pc = "parse" => loaded = 0
    /\ loaded = 1 => (mainArgs.bound /\ mainArgs.val # <<>>)
    /\ (mainArgs.val # <<>> /\ log # <<>>) => loaded = 1
    /\ (mainArgs.val # <<>> /\ pc \in {"exec", "body", "unwind", "done"}) => loaded = 1
    /\ error.phase = "import" =>
          (pc = "failed" /\ loaded = 0 /\ log = <<>> /\ out = <<>> /\ options = EmptyLookup /\ calls = <<>>)

C18_Witness ==
    /\ pc = "done" /\ loaded = 1
    /\ mainArgs.val = <<Version>> /\ log = <<Version>>

(* C19: when parseArguments raises, nothing of the command line has been    *)
(* executed: no option is set, no task called, pie_tasks not imported.      *)
C19_ParseBeforeExec ==
    (pc = "parse" \/ error.phase = "parse") =>
        /\ options = EmptyLookup
        /\ calls = <<>> /\ launched = <<>>
        /\ loaded = 0 /\ DOMAIN tasks = {}
        /\ log = <<>> /\ out = <<>>

C19_Witness ==
    /\ pc = "failed" /\ error = Raised("Exception", TOK_open, "parse")
    /\ parsed = <<Option(<<"x">>, <<"1">>)>>

====
